---------------------------- MODULE Spec2Model ----------------------------
(***************************************************************************)
(* A model of the DINO / Vision Transformer building blocks of             *)
(* src/dino/modules.py and of their older copies in src/src/.              *)
(*                                                                         *)
(* Tensors are modelled by their shape and, for the position-embedding     *)
(* table, by their contents: a table is a sequence of rows, row 1 being    *)
(* the class-token row, and a row is a sequence of embed_dim entries.  An  *)
(* entry is an exact rational <<numerator, denominator>> in lowest terms   *)
(* (the code computes in float32; rounding is not modelled).               *)
(* A call that raises is modelled by a result whose status is "error".     *)
(***************************************************************************)
EXTENDS Integers, Sequences, FiniteSets, TLC

VARIABLES
    pos_embed,  \* the position-embedding table held in memory
    net,        \* the module built last (NoModel before any)
    op,         \* the operation that ran last
    args,       \* its arguments
    ret         \* its outcome

vars == <<pos_embed, net, op, args, ret>>

---------------------------------------------------------------------------
(* Bounds of the model *)

\* largest side of a training patch grid of a caller-supplied table
MaxSide == 2
\* largest image height / width
MaxHW == 4
\* largest patch size
MaxPatch == 2
\* largest batch size
MaxBatch == 2

\* embedding widths that are tried
EmbedDims == {1, 2}
\* the fillings of a table that are tried
Seeds == {1, 2}

---------------------------------------------------------------------------
(* Integer and rational arithmetic *)

\* the element of a one-element set; {F(v) : v \in {e}} binds v to the value
\* of e as an assignment to a local variable does
The(S) == CHOOSE r \in S : TRUE

Abs(x) == IF x < 0 THEN -x ELSE x

Min(a, b) == IF a < b THEN a ELSE b

Max(a, b) == IF a > b THEN a ELSE b

RECURSIVE GCD(_, _)
GCD(a, b) == IF b = 0 THEN Abs(a) ELSE GCD(b, a % Abs(b))

LCM(a, b) == (a \div GCD(a, b)) * b

\* the rational n/d in lowest terms, d > 0
Rat(n, d) ==
    IF n = 0 THEN <<0, 1>>
    ELSE The({<<n \div g, d \div g>> : g \in {GCD(n, d)}})

\* int(math.sqrt(n)) for n >= 0
RECURSIVE ISqrtFrom(_, _)
ISqrtFrom(n, r) == IF (r + 1) * (r + 1) > n THEN r ELSE ISqrtFrom(n, r + 1)

ISqrt(n) == ISqrtFrom(n, 0)

IsPerfectSquare(n) == n >= 0 /\ ISqrt(n) * ISqrt(n) = n

---------------------------------------------------------------------------
(* Tensors *)

\* number of patch rows of a table (its rows minus the class-token row)
PatchRows(table) == Len(table) - 1

\* embedding width of a table
Width(table) == Len(table[1])

\* entry of a filled table: an integer in -1 .. 1; filling 0 is the
\* class-token row of ones over patch rows of zeros
Val(seed, i, c) ==
    IF seed = 0
    THEN (IF i = 1 THEN 1 ELSE 0)
    ELSE ((seed * i + c * c + (i * i) \div 3) % 3) - 1

\* a (1, n0 + 1, d) table as the caller or the constructor fills it
TableOf(n0, d, seed) ==
    [i \in 1 .. n0 + 1 |-> [c \in 1 .. d |-> <<Val(seed, i, c), 1>>]]

\* least common multiple of a set of positive integers
RECURSIVE LcmOfSet(_)
LcmOfSet(S) ==
    IF S = {} THEN 1
    ELSE LET x == CHOOSE y \in S : TRUE IN LCM(x, LcmOfSet(S \ {x}))

\* least common denominator of the entries of a table
LcmOfTable(table) ==
    LcmOfSet({table[i][c][2] : i \in 1 .. Len(table), c \in 1 .. Width(table)})

---------------------------------------------------------------------------
(* torch.nn.functional.interpolate(mode="bicubic"), align_corners=False,   *)
(* cubic convolution coefficient A = -3/4                                  *)

\* source coordinate of output index o (0-based) as numerator over 2*outSz
SrcNum(o, inSz, outSz) == (2 * o + 1) * inSz - outSz

\* floor of the source coordinate
SrcIdx(o, inSz, outSz) == SrcNum(o, inSz, outSz) \div (2 * outSz)

\* fractional part a/b of the source coordinate, in lowest terms
SrcFrac(o, inSz, outSz) ==
    Rat(SrcNum(o, inSz, outSz) % (2 * outSz), 2 * outSz)

\* 4*b^3 times cubic_convolution1(a/b), for 0 <= a/b <= 1
Conv1(a, b) == 5 * a * a * a - 9 * a * a * b + 4 * b * b * b

\* 4*b^3 times cubic_convolution2(a/b), for 1 <= a/b <= 2
Conv2(a, b) ==
    12 * b * b * b - 24 * a * b * b + 15 * a * a * b - 3 * a * a * a

\* the four tap weights of output index o, each over 4*b^3
Taps(o, inSz, outSz) ==
    The({<<Conv2(t[1] + t[2], t[2]), Conv1(t[1], t[2]),
           Conv1(t[2] - t[1], t[2]), Conv2(2 * t[2] - t[1], t[2])>> :
            t \in {SrcFrac(o, inSz, outSz)}})

\* the common denominator of the tap weights of output index o
TapDen(o, inSz, outSz) ==
    The({4 * t[2] * t[2] * t[2] : t \in {SrcFrac(o, inSz, outSz)}})

\* the source index (0-based) of tap k in 1 .. 4, clamped to the border
TapAt(o, k, inSz, outSz) ==
    Min(Max(SrcIdx(o, inSz, outSz) - 2 + k, 0), inSz - 1)

\* the taps of every output index of one axis
AxisTaps(inSz, outSz) ==
    [o \in 0 .. outSz - 1 |->
        [w |-> Taps(o, inSz, outSz),
         den |-> TapDen(o, inSz, outSz),
         at |-> [k \in 1 .. 4 |-> TapAt(o, k, inSz, outSz)]]]

\* the resampled entry (oy, ox) of channel c: l is the common denominator
\* of the table's entries, ty and tx the taps of the two axes
BicubicEntry(table, side, l, ty, tx, oy, ox, c) ==
    LET In(y, x) ==
            The({e[1] * (l \div e[2]) : e \in {table[2 + y * side + x][c]}})
        Term(i, j) ==
            The({IF e = 0 THEN 0 ELSE ty[oy].w[i] * tx[ox].w[j] * e :
                    e \in {In(ty[oy].at[i], tx[ox].at[j])}})
        RowSum(i) == Term(i, 1) + Term(i, 2) + Term(i, 3) + Term(i, 4)
    IN  The({IF sum = 0 THEN <<0, 1>>
             ELSE Rat(sum, ty[oy].den * tx[ox].den * l) :
                sum \in {RowSum(1) + RowSum(2) + RowSum(3) + RowSum(4)}})

\* Resample the patch rows of table (rows 2 .. side*side + 1, a side x side
\* grid in row-major order) to an outH x outW grid, returned in row-major
\* order as a sequence of outH * outW rows of the same width.
Bicubic(table, side, outH, outW) ==
    The({[r \in 1 .. outH * outW |->
            [c \in 1 .. Width(table) |->
                BicubicEntry(table, side, l, ty, tx,
                             (r - 1) \div outW, (r - 1) % outW, c)]] :
            l \in {LcmOfTable(table)},
            ty \in {AxisTaps(side, outH)},
            tx \in {AxisTaps(side, outW)}})

---------------------------------------------------------------------------
(* Positional-encoding interpolation *)

\* the outcome of a call that raised
Raised(what, table) ==
    [status |-> "error", error |-> what, table |-> <<>>, pos_embed |-> table]

\* the outcome of a call that returned out, leaving its argument as it was
Returned(out, table) ==
    [status |-> "ok", error |-> "none", table |-> out, pos_embed |-> table]

\* a fast path that is never taken
NoNeedToInterpolate_Never(table, n_patch, height, width) == FALSE

\* the test of the fast path
NoNeedToInterpolate(table, n_patch, height, width) ==
    n_patch = PatchRows(table) /\ height = width

\* side of the square grid the patch rows are reshaped to
PosEmbedSideLength(token_size) == ISqrt(token_size)

\* a reshape that drops the rows that do not fit the square grid
ReshapeFits_Truncating(table, side, dim) ==
    side * side * dim <= PatchRows(table) * Width(table)

\* patch_pos_embed.reshape(1, side, side, dim) keeps the number of elements
ReshapeFits(table, side, dim) ==
    side * side * dim = PatchRows(table) * Width(table)

\* the class-token row put behind the patch rows
CatClassFirst_Last(table, patch_pos_embed) == patch_pos_embed \o <<table[1]>>

\* torch.cat((class_pos_embed, patch_pos_embed), dim=1)
CatClassFirst(table, patch_pos_embed) == <<table[1]>> \o patch_pos_embed

\* the general path of both copies: outA x outB is the size handed to
\* nn.functional.interpolate
Resample(table, dim, outA, outB) ==
    LET side == PosEmbedSideLength(PatchRows(table))
    IN  IF ~ReshapeFits(table, side, dim)
        THEN Raised("reshape", table)
        ELSE IF side = 0 \/ outA = 0 \/ outB = 0
        THEN Raised("interpolate", table)
        ELSE IF dim # Width(table)
        THEN Raised("cat", table)
        ELSE Returned(CatClassFirst(table, Bicubic(table, side, outA, outB)),
                      table)

\* src/dino/modules.py
interpolate_pos_encoding(table, n_patch, dim, patch_size, height, width) ==
    IF NoNeedToInterpolate(table, n_patch, height, width)
    THEN Returned(table, table)
    ELSE IF patch_size = 0
    THEN Raised("ZeroDivisionError", table)
    ELSE Resample(table, dim, height \div patch_size, width \div patch_size)

\* src/src/preprocessing.py: width comes before height, and the grid is
\* resampled to (width // patch_size) x (height // patch_size)
preprocessing_interpolate_pos_encoding(table, n_patch, dim, patch_size, width, height) ==
    IF n_patch = PatchRows(table) /\ width = height
    THEN Returned(table, table)
    ELSE IF patch_size = 0
    THEN Raised("ZeroDivisionError", table)
    ELSE Resample(table, dim, width \div patch_size, height \div patch_size)

---------------------------------------------------------------------------
(* The inputs *)

\* the patches of one side only
compute_num_patches_OneSide(img_size, patch_size) == img_size \div patch_size

\* _compute_num_patches
compute_num_patches(img_size, patch_size) ==
    (img_size \div patch_size) * (img_size \div patch_size)

\* defaults of PatchEmbed and VisionTransformer
DefaultImgSize == 224

DefaultPatchSize == 16

\* the table of a model built with the default img_size and patch_size,
\* one channel wide; its patch rows are zero, which keeps the arithmetic of
\* a resampling to 24 x 24 within 32-bit integers
DefaultTable ==
    TableOf(compute_num_patches(DefaultImgSize, DefaultPatchSize), 1, 0)

\* tables a caller can hand to the interpolation
Tables ==
    {TableOf(n0, d, seed) :
        n0 \in 0 .. MaxSide * MaxSide, d \in EmbedDims, seed \in Seeds}
    \cup {DefaultTable}

\* arguments of a call of the interpolation on table; n_patch is the table's
\* patch-row count or not
SmallArgs(table) ==
    [n_patch : {PatchRows(table), PatchRows(table) + 1},
     dim : EmbedDims,
     patch_size : 0 .. MaxPatch,
     height : 1 .. MaxHW,
     width : 1 .. MaxHW]

\* images of 224, 392 and 448 pixels a side on the default table, with the
\* patch count such an image has or with 28 * 28
DefaultArgs(table) ==
    IF PatchRows(table) # compute_num_patches(DefaultImgSize, DefaultPatchSize)
    THEN {}
    ELSE {[n_patch |-> n,
           dim |-> Width(table),
           patch_size |-> DefaultPatchSize,
           height |-> s,
           width |-> s] :
            s \in {DefaultImgSize, 392, 28 * DefaultPatchSize},
            n \in {196, 576, 784}}

InterpArgs(table) == SmallArgs(table) \cup DefaultArgs(table)

NoModel == [kind |-> "none"]

NoArgs == [none |-> TRUE]

NoRet == [status |-> "none"]

---------------------------------------------------------------------------
(* Calls of the interpolation *)

InitInterp ==
    /\ pos_embed \in Tables
    /\ net = NoModel
    /\ op = "init"
    /\ args = NoArgs
    /\ ret = NoRet

Interpolate ==
    /\ op = "init"
    /\ \E a \in InterpArgs(pos_embed) :
        \E r \in {interpolate_pos_encoding(pos_embed, a.n_patch, a.dim,
                                            a.patch_size, a.height,
                                            a.width)} :
            /\ op' = "modules.interpolate_pos_encoding"
            /\ args' = a
            /\ ret' = r
            /\ pos_embed' = r.pos_embed
            /\ UNCHANGED net

PreprocessingInterpolate ==
    /\ op = "init"
    /\ \E a \in InterpArgs(pos_embed) :
        \E r \in {preprocessing_interpolate_pos_encoding(
                    pos_embed, a.n_patch, a.dim, a.patch_size, a.width,
                    a.height)} :
            /\ op' = "preprocessing.interpolate_pos_encoding"
            /\ args' = a
            /\ ret' = r
            /\ pos_embed' = r.pos_embed
            /\ UNCHANGED net

NextInterp == Interpolate \/ PreprocessingInterpolate

SpecInterp == InitInterp /\ [][NextInterp]_vars

---------------------------------------------------------------------------
(* Patch embedding and token assembly *)

\* an image batch x of shape (batch, channels, height, width)
Image(batch, channels, height, width) ==
    [batch |-> batch, channels |-> channels, height |-> height,
     width |-> width]

\* PatchEmbed.__init__
PatchEmbed(img_size, patch_size, in_channels, embed_dim) ==
    [img_size |-> img_size,
     patch_size |-> patch_size,
     num_patches |-> compute_num_patches(img_size, patch_size),
     in_channels |-> in_channels,
     embed_dim |-> embed_dim]

\* a convolution that rounds the last partial patch up
ConvOut_Ceil(size, kernel) == (size + kernel - 1) \div kernel

\* output length of nn.Conv2d(kernel_size=kernel, stride=kernel) along one
\* axis of length size >= kernel
ConvOut(size, kernel) == (size - kernel) \div kernel + 1

\* PatchEmbed.forward: the shape (batch, tokens, dim) of the patch tokens
PatchEmbed_forward(pe, x) ==
    IF x.channels # pe.in_channels
    THEN [status |-> "error", error |-> "conv channels", batch |-> 0,
          tokens |-> 0, dim |-> 0]
    ELSE IF x.height < pe.patch_size \/ x.width < pe.patch_size
    THEN [status |-> "error", error |-> "conv kernel", batch |-> 0,
          tokens |-> 0, dim |-> 0]
    ELSE [status |-> "ok", error |-> "none", batch |-> x.batch,
          tokens |-> ConvOut(x.height, pe.patch_size)
                        * ConvOut(x.width, pe.patch_size),
          dim |-> pe.embed_dim]

\* sizes a and b of one axis broadcast
Broadcasts(a, b) == a = b \/ a = 1 \/ b = 1

\* the outcome of prepare_tokens: the shape (batch, tokens, dim) of the
\* token sequence, the rows of the positional table added to it (0 when the
\* interpolation was not reached or raised) and the patch size the
\* interpolation was given
Prepared(status, error, batch, tokens, dim, pos_rows, path, patch_size) ==
    [status |-> status, error |-> error, batch |-> batch, tokens |-> tokens,
     dim |-> dim, pos_rows |-> pos_rows, path |-> path,
     patch_size |-> patch_size]

\* prepare_tokens from line 310 on: e is the outcome of the patch
\* embedding, with the class token in front the sequence has 1 + e.tokens
\* tokens, and p is the outcome of the interpolation
AddPositions(e, p, path, patch_size) ==
    IF p.status = "error"
    THEN Prepared("error", p.error, e.batch, 1 + e.tokens, e.dim, 0, path,
                  patch_size)
    ELSE IF ~(Broadcasts(1 + e.tokens, Len(p.table))
                /\ Broadcasts(e.dim, Width(p.table)))
    THEN Prepared("error", "add", e.batch, 1 + e.tokens, e.dim,
                  Len(p.table), path, patch_size)
    ELSE Prepared("ok", "none", e.batch, Max(1 + e.tokens, Len(p.table)),
                  Max(e.dim, Width(p.table)), Len(p.table), path, patch_size)

\* prepare_tokens from line 305 on: e is the outcome of the patch embedding
EmbedPositions(x, e, table, patch_size) ==
    IF e.status = "error"
    THEN Prepared("error", e.error, 0, 0, 0, 0, "none", patch_size)
    ELSE The({AddPositions(
                e, p,
                IF NoNeedToInterpolate(table, e.tokens, x.height, x.width)
                THEN "fast" ELSE "general",
                patch_size) :
              p \in {interpolate_pos_encoding(table, e.tokens, e.dim,
                                              patch_size, x.height,
                                              x.width)}})

\* prepare_tokens(x, patch_embed, cls_token, pos_embed, pos_drop, patch_size)
prepare_tokens(x, pe, table, patch_size) ==
    The({EmbedPositions(x, e, table, patch_size) :
            e \in {PatchEmbed_forward(pe, x)}})

\* number of input channels of the embedders that are tried (the default)
InChannels == 3

\* channel counts of the images that are tried
ImageChannels == {1, InChannels}

\* image batches
Images ==
    {Image(b, c, h, w) :
        b \in 1 .. MaxBatch, c \in ImageChannels,
        h \in 1 .. MaxHW, w \in 1 .. MaxHW}

\* patch embedders
Embedders ==
    {PatchEmbed(DefaultImgSize, p, InChannels, d) :
        p \in 1 .. MaxPatch, d \in EmbedDims}

InitTokens ==
    /\ pos_embed \in {TableOf(n0, d, 1) :
                        n0 \in 0 .. MaxSide * MaxSide, d \in EmbedDims}
    /\ net = NoModel
    /\ op = "init"
    /\ args = NoArgs
    /\ ret = NoRet

PatchEmbedForward ==
    /\ op = "init"
    /\ \E pe \in Embedders, x \in Images :
        /\ op' = "PatchEmbed.forward"
        /\ args' = [patch_embed |-> pe, x |-> x]
        /\ ret' = PatchEmbed_forward(pe, x)
        /\ UNCHANGED <<pos_embed, net>>

PrepareTokens ==
    /\ op = "init"
    /\ \E pe \in Embedders, x \in Images, patch_size \in 0 .. MaxPatch :
        /\ op' = "prepare_tokens"
        /\ args' = [patch_embed |-> pe, x |-> x, patch_size |-> patch_size]
        /\ ret' = prepare_tokens(x, pe, pos_embed, patch_size)
        /\ UNCHANGED <<pos_embed, net>>

NextTokens == PatchEmbedForward \/ PrepareTokens

SpecTokens == InitTokens /\ [][NextTokens]_vars

---------------------------------------------------------------------------
(* The Vision Transformer and its factories *)

\* what a function without a return statement returns
None == [kind |-> "None"]

\* VisionTransformer.__init__: the configuration of the model built
VisionTransformer(img_size, patch_size, in_channels, embed_dim, depth, num_heads, mlp_ratio, qkv_bias) ==
    [kind |-> "VisionTransformer",
     patch_embed |-> PatchEmbed(img_size, patch_size, in_channels, embed_dim),
     embed_dim |-> embed_dim,
     depth |-> depth,
     num_heads |-> num_heads,
     mlp_ratio |-> mlp_ratio,
     qkv_bias |-> qkv_bias]

\* the position table VisionTransformer.__init__ creates for model m
PosEmbedOf(m, seed) == TableOf(m.patch_embed.num_patches, m.embed_dim, seed)

\* Attention.forward reshapes (B, N, 3C) to (B, N, 3, heads, C // heads)
AttentionFits(m) ==
    m.depth = 0 \/ m.num_heads * (m.embed_dim \div m.num_heads) = m.embed_dim

\* the value VisionTransformer.forward hands to prepare_tokens as patch_size
ForwardPatchSize(m, x) == x.batch

\* VisionTransformer.forward from line 500 on: t is the outcome of
\* prepare_tokens; x[:, 0] has shape (features, dim)
ThroughBlocks(m, t) ==
    IF t.status = "error"
    THEN [t EXCEPT !.batch = 0] @@ [features |-> 0]
    ELSE IF ~AttentionFits(m)
    THEN [t EXCEPT !.status = "error", !.error = "attention reshape"]
            @@ [features |-> 0]
    ELSE t @@ [features |-> t.batch]

\* VisionTransformer.forward
VisionTransformer_forward(m, table, x) ==
    The({ThroughBlocks(m, t) :
            t \in {prepare_tokens(x, m.patch_embed, table,
                                  ForwardPatchSize(m, x))}})

\* src/src/modules.py: vision_transformer, whose body is pass
vision_transformer(img_size, patch_size, in_channels, embed_dim, depth, num_heads, mlp_ratio, qkv_bias) ==
    None

\* the table of model variants: embed_dim and num_heads
Variants == {"tiny", "small", "base"}

EmbedDimOf(variant) ==
    CASE variant = "tiny" -> 192
      [] variant = "small" -> 384
      [] variant = "base" -> 768

NumHeadsOf(variant) ==
    CASE variant = "tiny" -> 3
      [] variant = "small" -> 6
      [] variant = "base" -> 12

\* src/dino/modules.py: vit_tiny, vit_small, vit_base; kwargs holds img_size
modules_vit(variant, patch_size, kwargs) ==
    VisionTransformer(kwargs.img_size, patch_size, InChannels,
                      EmbedDimOf(variant), 12, NumHeadsOf(variant), 4, TRUE)

\* src/src/modules.py: vit_tiny, vit_small, vit_base
src_vit(variant, patch_size, kwargs) ==
    vision_transformer(<<kwargs.img_size>>, patch_size, InChannels,
                       EmbedDimOf(variant), 12, NumHeadsOf(variant), 4, TRUE)

\* numbers of attention heads of the models built directly
Heads == {1, 2}

InitVit ==
    /\ pos_embed = <<>>
    /\ net = NoModel
    /\ op = "init"
    /\ args = NoArgs
    /\ ret = NoRet

\* VisionTransformer(img_size=..., patch_size=..., embed_dim=...,
\* num_heads=...)
VisionTransformerInit ==
    /\ op = "init"
    /\ \E img_size \in 1 .. MaxHW, patch_size \in 1 .. MaxPatch,
          embed_dim \in EmbedDims, num_heads \in Heads, seed \in Seeds :
        \E m \in {VisionTransformer(img_size, patch_size, InChannels,
                                     embed_dim, 12, num_heads, 4, FALSE)} :
            /\ op' = "VisionTransformer.__init__"
            /\ args' = [img_size |-> img_size, patch_size |-> patch_size,
                        embed_dim |-> embed_dim, num_heads |-> num_heads]
            /\ net' = m
            /\ pos_embed' = PosEmbedOf(m, seed)
            /\ ret' = [status |-> "ok", value |-> m]

\* model(x) on a model built directly
Forward ==
    /\ op = "VisionTransformer.__init__"
    /\ \E x \in Images :
        /\ op' = "VisionTransformer.forward"
        /\ args' = [x |-> x]
        /\ ret' = VisionTransformer_forward(net, pos_embed, x)
        /\ UNCHANGED <<pos_embed, net>>

\* dino.modules.vit_tiny / vit_small / vit_base (patch_size, img_size=...):
\* the model returned is recorded by its configuration
ModulesFactory ==
    /\ op = "init"
    /\ \E variant \in Variants,
          patch_size \in (1 .. MaxPatch) \cup {DefaultPatchSize},
          img_size \in 1 .. MaxHW :
        /\ op' = "modules.vit_" \o variant
        /\ args' = [variant |-> variant, patch_size |-> patch_size,
                    img_size |-> img_size]
        /\ ret' = [status |-> "ok",
                   value |-> modules_vit(variant, patch_size,
                                         [img_size |-> img_size])]
        /\ UNCHANGED <<pos_embed, net>>

\* src.modules.vit_tiny / vit_small / vit_base (patch_size, img_size=...)
SrcFactory ==
    /\ op = "init"
    /\ \E variant \in Variants,
          patch_size \in (1 .. MaxPatch) \cup {DefaultPatchSize},
          img_size \in 1 .. MaxHW :
        /\ op' = "src.vit_" \o variant
        /\ args' = [variant |-> variant, patch_size |-> patch_size,
                    img_size |-> img_size]
        /\ ret' = [status |-> "ok",
                   value |-> src_vit(variant, patch_size,
                                     [img_size |-> img_size])]
        /\ UNCHANGED <<pos_embed, net>>

NextVit == VisionTransformerInit \/ Forward \/ ModulesFactory \/ SrcFactory

SpecVit == InitVit /\ [][NextVit]_vars

---------------------------------------------------------------------------
(* Stochastic depth *)

\* a tensor x of shape (batch, 1): one entry per sample
Samples ==
    UNION {[1 .. b -> {<<v, 1>> : v \in {-1, 1}}] : b \in 1 .. MaxBatch}

\* a Python float of value num / den
Float(num, den) == [kind |-> "float", value |-> <<num, den>>]

\* drop probabilities: the constructor's default None, 0, 1/2, 1, and -1/2
DropProbs == {None, Float(0, 1), Float(1, 2), Float(1, 1), Float(-1, 2)}

\* the quotient of two entries; a zero divisor gives an infinity <<s, 0>> or
\* the not-a-number <<0, 0>>
RatDiv(a, b) ==
    IF b[1] = 0
    THEN <<IF a[1] > 0 THEN 1 ELSE IF a[1] < 0 THEN -1 ELSE 0, 0>>
    ELSE IF b[1] < 0 THEN Rat(-(a[1] * b[2]), -(a[2] * b[1]))
    ELSE Rat(a[1] * b[2], a[2] * b[1])

\* an entry times a mask entry 0 or 1; 0 times an infinity is not a number
RatMask(a, m) ==
    IF m = 1 THEN a ELSE IF a[2] = 0 THEN <<0, 0>> ELSE <<0, 1>>

\* floor(keep_prob + rand) for rand in [0, 1): the values the mask of a
\* sample can take
MaskValues(keep_prob) ==
    IF keep_prob[1] <= 0 THEN {0}
    ELSE IF keep_prob[1] >= keep_prob[2] THEN {1}
    ELSE {0, 1}

\* drop_prob <= 0.0; None is not ordered and the comparison raises
NotPositive(drop_prob) ==
    IF drop_prob = None THEN "TypeError"
    ELSE IF drop_prob.value[1] <= 0 THEN "true" ELSE "false"

\* drop_path(x, drop_prob, training): the outcomes, one per value of the
\* random tensor
drop_path(x, drop_prob, training) ==
    IF NotPositive(drop_prob) = "TypeError"
    THEN {[status |-> "error", error |-> "TypeError", value |-> <<>>]}
    ELSE IF NotPositive(drop_prob) = "true" \/ ~training
    THEN {[status |-> "ok", error |-> "none", value |-> x]}
    ELSE LET keep_prob == Rat(drop_prob.value[2] - drop_prob.value[1],
                              drop_prob.value[2])
         IN  {[status |-> "ok", error |-> "none",
               value |-> [i \in DOMAIN x |->
                            RatMask(RatDiv(x[i], keep_prob),
                                    random_tensor[i])]] :
                random_tensor \in [DOMAIN x -> MaskValues(keep_prob)]}

\* DropPath.__init__; a new module is in training mode
DropPath(drop_prob) ==
    [kind |-> "DropPath", drop_prob |-> drop_prob, training |-> TRUE]

\* DropPath.forward
DropPath_forward(self, x) == drop_path(x, self.drop_prob, self.training)

InitDrop ==
    /\ pos_embed = <<>>
    /\ net = NoModel
    /\ op = "init"
    /\ args = NoArgs
    /\ ret = NoRet

\* drop_path called directly
DropPathCall ==
    \E x \in Samples, drop_prob \in DropProbs, training \in BOOLEAN :
        \E r \in drop_path(x, drop_prob, training) :
            /\ op' = "drop_path"
            /\ args' = [x |-> x, drop_prob |-> drop_prob,
                        training |-> training]
            /\ ret' = r
            /\ UNCHANGED <<pos_embed, net>>

\* DropPath() or DropPath(drop_prob)
DropPathInit ==
    \E drop_prob \in DropProbs :
        /\ op' = "DropPath.__init__"
        /\ args' = [drop_prob |-> drop_prob]
        /\ net' = DropPath(drop_prob)
        /\ ret' = [status |-> "ok"]
        /\ UNCHANGED pos_embed

\* module.eval() and module.train()
SetTraining ==
    /\ net # NoModel
    /\ \E mode \in BOOLEAN :
        /\ op' = IF mode THEN "train" ELSE "eval"
        /\ args' = NoArgs
        /\ net' = [net EXCEPT !.training = mode]
        /\ ret' = [status |-> "ok"]
        /\ UNCHANGED pos_embed

\* module(x)
DropPathForward ==
    /\ net # NoModel
    /\ \E x \in Samples :
        \E r \in DropPath_forward(net, x) :
            /\ op' = "DropPath.forward"
            /\ args' = [x |-> x, drop_prob |-> net.drop_prob,
                        training |-> net.training]
            /\ ret' = r
            /\ UNCHANGED <<pos_embed, net>>

NextDrop == DropPathCall \/ DropPathInit \/ SetTraining \/ DropPathForward

SpecDrop == InitDrop /\ [][NextDrop]_vars

---------------------------------------------------------------------------
(* The DINO head *)

\* largest n_layers
MaxLayers == 3

Linear(in_features, out_features, bias) ==
    [kind |-> "Linear", in_features |-> in_features,
     out_features |-> out_features, bias |-> bias]

GELU == [kind |-> "GELU"]

\* the n hidden_dim -> hidden_dim layers of the loop, each with its GELU
RECURSIVE HiddenLayers(_, _)
HiddenLayers(n, hidden_dim) ==
    IF n <= 0 THEN <<>>
    ELSE <<Linear(hidden_dim, hidden_dim, TRUE), GELU>>
            \o HiddenLayers(n - 1, hidden_dim)

\* the list layers of dino_head
HeadLayers(input_dim, n_layers, hidden_dim, bottleneck_dim) ==
    IF n_layers = 1
    THEN <<Linear(input_dim, bottleneck_dim, TRUE)>>
    ELSE <<Linear(input_dim, hidden_dim, TRUE), GELU>>
            \o HiddenLayers(n_layers - 2, hidden_dim)
            \o <<Linear(hidden_dim, bottleneck_dim, TRUE)>>

\* whether Python can iterate over v
IsIterable(v) == v.kind \in {"list", "ModuleList", "Sequential"}

\* nn.ModuleList(*positional): the constructor takes one optional iterable
\* of modules
ModuleList(positional) ==
    IF Len(positional) = 0
    THEN [status |-> "ok", value |-> [kind |-> "ModuleList", items |-> <<>>]]
    ELSE IF Len(positional) > 1
    THEN [status |-> "error", error |-> "TypeError: positional arguments"]
    ELSE IF ~IsIterable(positional[1])
    THEN [status |-> "error", error |-> "TypeError: not an iterable"]
    ELSE [status |-> "ok",
          value |-> [kind |-> "ModuleList", items |-> positional[1].items]]

\* nn.utils.weight_norm(nn.Linear(bottleneck_dim, output_dim, bias=False))
\* with weight_g filled with 1 and frozen
LastLayer(bottleneck_dim, output_dim) ==
    Linear(bottleneck_dim, output_dim, FALSE)
        @@ [weight_norm |-> TRUE, weight_g |-> 1,
            weight_g_requires_grad |-> FALSE]

Normalize(p, dim) == [kind |-> "Normalize", p |-> p, dim |-> dim]

\* dino_head, the same text in src/dino/modules.py and src/src/modules.py
dino_head(input_dim, output_dim, n_layers, hidden_dim, bottleneck_dim) ==
    The({IF module.status = "error"
         THEN [status |-> "error", error |-> module.error, value |-> None]
         ELSE [status |-> "ok", error |-> "none",
               value |-> [kind |-> "Sequential",
                          items |-> <<module.value, Normalize(2, -1),
                                      LastLayer(bottleneck_dim,
                                                output_dim)>>]] :
            module \in {ModuleList(HeadLayers(input_dim, n_layers,
                                              hidden_dim, bottleneck_dim))}})

InitHead ==
    /\ pos_embed = <<>>
    /\ net = NoModel
    /\ op = "init"
    /\ args = NoArgs
    /\ ret = NoRet

HeadArgs ==
    [input_dim : EmbedDims, output_dim : EmbedDims,
     n_layers : 0 .. MaxLayers, hidden_dim : EmbedDims,
     bottleneck_dim : EmbedDims]

\* dino.modules.dino_head
DinoHead ==
    /\ op = "init"
    /\ \E a \in HeadArgs :
        /\ op' = "modules.dino_head"
        /\ args' = a
        /\ ret' = dino_head(a.input_dim, a.output_dim, a.n_layers,
                            a.hidden_dim, a.bottleneck_dim)
        /\ UNCHANGED <<pos_embed, net>>

\* src.modules.dino_head
SrcDinoHead ==
    /\ op = "init"
    /\ \E a \in HeadArgs :
        /\ op' = "src.dino_head"
        /\ args' = a
        /\ ret' = dino_head(a.input_dim, a.output_dim, a.n_layers,
                            a.hidden_dim, a.bottleneck_dim)
        /\ UNCHANGED <<pos_embed, net>>

NextHead == DinoHead \/ SrcDinoHead

SpecHead == InitHead /\ [][NextHead]_vars

---------------------------------------------------------------------------
(* Attention *)

\* largest number of tokens N of a sequence given to the attention
MaxTokens == 2

\* largest batch size B of a sequence given to the attention
MaxAttnBatch == 1

\* bool(v) of Python for None and for numbers
Truthy(v) == v # None /\ v.value[1] # 0

\* n ** -0.5; Python raises ZeroDivisionError for n = 0
InvSqrt(n) == [kind |-> "float", inv_sqrt_of |-> n]

\* Attention.__init__ up to self.scale: qk_scale or head_dim ** -0.5. The
\* right operand of or is evaluated only when qk_scale is None or zero.
AttentionScale(dim, num_heads, qk_scale) ==
    IF num_heads = 0 THEN [status |-> "error", error |-> "ZeroDivisionError"]
    ELSE IF Truthy(qk_scale) THEN [status |-> "ok", value |-> qk_scale]
    ELSE IF dim \div num_heads = 0
    THEN [status |-> "error", error |-> "ZeroDivisionError"]
    ELSE [status |-> "ok", value |-> InvSqrt(dim \div num_heads)]

\* nn.Dropout(p) accepts probabilities from 0 to 1
DropoutProbs == {<<0, 1>>, <<1, 2>>, <<1, 1>>}

\* Attention.__init__: the module, in training mode as every new module
Attention(dim, num_heads, qk_scale, attention_drop_prob) ==
    The({IF scale.status = "error"
         THEN [status |-> "error", error |-> scale.error, value |-> None]
         ELSE [status |-> "ok", error |-> "none",
               value |-> [kind |-> "Attention", dim |-> dim,
                          num_heads |-> num_heads, scale |-> scale.value,
                          attention_drop_prob |-> attention_drop_prob,
                          training |-> TRUE]] :
            scale \in {AttentionScale(dim, num_heads, qk_scale)}})

\* Block.__init__: the block holds the attention built from its arguments
Block(dim, num_heads, qk_scale, attention_drop_prob) ==
    The({IF attn.status = "error"
         THEN attn
         ELSE [status |-> "ok", error |-> "none",
               value |-> [kind |-> "Block", dim |-> dim,
                          attn |-> attn.value, training |-> TRUE]] :
            attn \in {Attention(dim, num_heads, qk_scale,
                                attention_drop_prob)}})

\* a sequence x of shape (batch, tokens, dim)
TokenSeq(batch, tokens, dim) ==
    [batch |-> batch, tokens |-> tokens, dim |-> dim]

\* 2 ** k
RECURSIVE Pow2(_)
Pow2(k) == IF k <= 0 THEN 1 ELSE 2 * Pow2(k - 1)

\* the sum of the entries of a row of rationals
RECURSIVE RatSumFrom(_, _)
RatSumFrom(row, j) ==
    IF j > Len(row) THEN <<0, 1>>
    ELSE The({Rat(row[j][1] * rest[2] + rest[1] * row[j][2],
                  row[j][2] * rest[2]) :
                rest \in {RatSumFrom(row, j + 1)}})

RatSum(row) == RatSumFrom(row, 1)

\* softmax over a row of scores given in units of ln 2: exp(k ln 2) = 2 ** k
SoftmaxRow(row) ==
    The({[j \in DOMAIN row |-> Rat(Pow2(row[j]), total[1])] :
            total \in {RatSum([j \in DOMAIN row |-> <<Pow2(row[j]), 1>>])}})

\* attn.softmax(dim=-1) of a tensor of shape (batch * heads, N, N)
Softmax(scores) ==
    [s \in DOMAIN scores |->
        [i \in DOMAIN scores[s] |-> SoftmaxRow(scores[s][i])]]

\* the values a dropout mask entry can take
DropoutMaskValues(p, training) ==
    IF ~training \/ p[1] = 0 THEN {1}
    ELSE IF p[1] >= p[2] THEN {0}
    ELSE {0, 1}

\* nn.Dropout(p) applied to one entry: a dropped entry is 0, a kept one is
\* divided by 1 - p in training mode
DropoutEntry(a, m, p, training) ==
    IF ~training \/ p[1] = 0 THEN a
    ELSE IF m = 0 THEN <<0, 1>>
    ELSE RatDiv(a, Rat(p[2] - p[1], p[2]))

\* self.drop(attn) for one value of the random mask
Dropout(attn, mask, p, training) ==
    [s \in DOMAIN attn |->
        [i \in DOMAIN attn[s] |->
            [j \in DOMAIN attn[s][i] |->
                DropoutEntry(attn[s][i][j], mask[s][i][j], p, training)]]]

\* the scores (query @ key.transpose(-2, -1)) * self.scale tried, in units
\* of ln 2, one matrix per batch element and head
ScoresOf(seed, slices, tokens) ==
    [s \in 1 .. slices |->
        [i \in 1 .. tokens |->
            [j \in 1 .. tokens |-> (seed * (s + i) + i * j) % 2]]]

\* Attention.forward: the outcomes (shape of x, and attn), one per value of
\* the random dropout mask
Attention_forward(self, x, seed) ==
    IF x.dim # self.dim
    THEN {[status |-> "error", error |-> "linear", x |-> x, attn |-> <<>>]}
    ELSE IF self.num_heads * (x.dim \div self.num_heads) # x.dim
    THEN {[status |-> "error", error |-> "reshape", x |-> x, attn |-> <<>>]}
    ELSE {[status |-> "ok", error |-> "none", x |-> x,
           attn |-> Dropout(Softmax(ScoresOf(seed, x.batch * self.num_heads,
                                             x.tokens)),
                            mask, self.attention_drop_prob, self.training)] :
            mask \in [1 .. x.batch * self.num_heads ->
                        [1 .. x.tokens ->
                            [1 .. x.tokens ->
                                DropoutMaskValues(self.attention_drop_prob,
                                                  self.training)]]]}

\* Block.forward: attn when return_attention, else x of the same shape
Block_forward(self, x, seed, return_attention) ==
    {IF r.status = "error" \/ return_attention THEN r
     ELSE [r EXCEPT !.attn = <<>>] :
        r \in Attention_forward([self.attn EXCEPT !.training = self.training],
                                x, seed)}

InitAttn ==
    /\ pos_embed = <<>>
    /\ net = NoModel
    /\ op = "init"
    /\ args = NoArgs
    /\ ret = NoRet

\* overrides of the scale: none, 0, 1/2 and 2
QkScales == {None, Float(0, 1), Float(1, 2), Float(2, 1)}

AttnArgs ==
    [dim : EmbedDims, num_heads : Heads, qk_scale : QkScales,
     attention_drop_prob : DropoutProbs]

TokenSeqs ==
    {TokenSeq(b, n, d) :
        b \in 1 .. MaxAttnBatch, n \in 1 .. MaxTokens, d \in EmbedDims}

\* Attention(dim, num_heads, qk_scale=..., attention_drop_prob=...)
AttentionInit ==
    /\ op = "init"
    /\ \E a \in AttnArgs :
        \E r \in {Attention(a.dim, a.num_heads, a.qk_scale,
                            a.attention_drop_prob)} :
            /\ op' = "Attention.__init__"
            /\ args' = a
            /\ net' = IF r.status = "ok" THEN r.value ELSE NoModel
            /\ ret' = r
            /\ UNCHANGED pos_embed

\* Block(dim, num_heads, qk_scale=..., attention_drop_prob=...)
BlockInit ==
    /\ op = "init"
    /\ \E a \in AttnArgs :
        \E r \in {Block(a.dim, a.num_heads, a.qk_scale,
                        a.attention_drop_prob)} :
            /\ op' = "Block.__init__"
            /\ args' = a
            /\ net' = IF r.status = "ok" THEN r.value ELSE NoModel
            /\ ret' = r
            /\ UNCHANGED pos_embed

\* attention(x)
AttentionForward ==
    /\ net # NoModel
    /\ net.kind = "Attention"
    /\ op # "Attention.forward"
    /\ \E x \in TokenSeqs, seed \in Seeds :
        \E r \in Attention_forward(net, x, seed) :
            /\ op' = "Attention.forward"
            /\ args' = [x |-> x, return_attention |-> TRUE]
            /\ ret' = r
            /\ UNCHANGED <<pos_embed, net>>

\* block(x, return_attention)
BlockForward ==
    /\ net # NoModel
    /\ net.kind = "Block"
    /\ op # "Block.forward"
    /\ \E x \in TokenSeqs, seed \in Seeds, return_attention \in BOOLEAN :
        \E r \in Block_forward(net, x, seed, return_attention) :
            /\ op' = "Block.forward"
            /\ args' = [x |-> x, return_attention |-> return_attention]
            /\ ret' = r
            /\ UNCHANGED <<pos_embed, net>>

NextAttn ==
    AttentionInit \/ BlockInit \/ SetTraining \/ AttentionForward
        \/ BlockForward

SpecAttn == InitAttn /\ [][NextAttn]_vars

---------------------------------------------------------------------------
(* Weight initialization *)

\* largest standard normal deviate that is drawn as a finite value
MaxDev == 3

RatAdd(x, y) == Rat(x[1] * y[2] + y[1] * x[2], x[2] * y[2])

RatSub(x, y) == Rat(x[1] * y[2] - y[1] * x[2], x[2] * y[2])

RatMul(x, y) == Rat(x[1] * y[1], x[2] * y[2])

\* x <= y, also when one of them is an infinity
RatLeq(x, y) == x[1] * y[2] <= y[1] * x[2]

\* defaults of _truncated_normal: mean 0, a -2 and b 2
DefaultMean == <<0, 1>>

DefaultA == <<-2, 1>>

DefaultB == <<2, 1>>

\* the std the initializers pass: 0.02
InitStd == <<1, 50>>

\* the test of _truncated_normal that leads to the warning
TruncatedNormalWarns(mean, std, a, b) ==
    \/ ~RatLeq(RatSub(a, RatMul(<<2, 1>>, std)), mean)
    \/ ~RatLeq(mean, RatAdd(b, RatMul(<<2, 1>>, std)))

\* the standard normal deviates erfinv(u) * sqrt(2) for u uniform between
\* 2 * lower - 1 and 2 * upper - 1: those from (a - mean) / std to
\* (b - mean) / std, of which the whole numbers and the two ends are drawn;
\* where an end lies further out than MaxDev the cdf has saturated, u is -1
\* or 1 and erfinv gives an infinity
Deviates(lo, hi) ==
    {z \in {<<k, 1>> : k \in -MaxDev .. MaxDev} \cup {lo, hi} :
        /\ RatLeq(lo, z) /\ RatLeq(z, hi)
        /\ RatLeq(<<-MaxDev, 1>>, z) /\ RatLeq(z, <<MaxDev, 1>>)}
    \cup (IF RatLeq(<<-MaxDev, 1>>, lo) THEN {} ELSE {<<-1, 0>>})
    \cup (IF RatLeq(hi, <<MaxDev, 1>>) THEN {} ELSE {<<1, 0>>})

\* tensor.mul_(std * sqrt(2)) and tensor.add_(mean) on the deviate z
Scaled(z, mean, std) == IF z[2] = 0 THEN z ELSE RatAdd(mean, RatMul(std, z))

\* tensor.clamp_(min=a, max=b) on one entry
Clamp(v, a, b) == IF RatLeq(v, a) THEN a ELSE IF RatLeq(b, v) THEN b ELSE v

\* the values _truncated_normal can give an entry
TruncatedNormalValues(mean, std, a, b) ==
    {Clamp(Scaled(z, mean, std), a, b) :
        z \in Deviates(RatDiv(RatSub(a, mean), std),
                       RatDiv(RatSub(b, mean), std))}

\* _truncated_normal(tensor, mean, std, a, b) on a tensor of numel entries:
\* the outcomes, one per draw
truncated_normal(numel, mean, std, a, b) ==
    {[status |-> "ok", warned |-> TruncatedNormalWarns(mean, std, a, b),
      tensor |-> t] :
        t \in [1 .. numel -> TruncatedNormalValues(mean, std, a, b)]}

LayerNorm(dim) == [kind |-> "LayerNorm", dim |-> dim]

\* a tensor of numel entries all equal to v
Constant(numel, v) == [kind |-> "tensor", values |-> [i \in 1 .. numel |-> v]]

\* a module after its initialization: its weight and its bias
Initialized(weight, bias) ==
    [status |-> "ok", changed |-> TRUE, weight |-> weight, bias |-> bias]

\* the initialization of a linear layer, shared by _init_dino_head and
\* _init_weights: truncated normal weight with std=0.02, zero bias if any
InitLinear(module) ==
    {Initialized([kind |-> "tensor", values |-> w.tensor],
                 IF module.bias THEN Constant(module.out_features, <<0, 1>>)
                 ELSE None) :
        w \in truncated_normal(module.out_features * module.in_features,
                               DefaultMean, InitStd, DefaultA, DefaultB)}

\* _init_dino_head(linear_module): the type check admits nn.Linear only
init_dino_head(linear_module) ==
    IF linear_module.kind # "Linear"
    THEN {[status |-> "error", changed |-> FALSE, weight |-> None,
           bias |-> None]}
    ELSE InitLinear(linear_module)

\* VisionTransformer._init_weights(module)
VisionTransformer_init_weights(module) ==
    IF module.kind = "Linear" THEN InitLinear(module)
    ELSE IF module.kind = "LayerNorm"
    THEN {Initialized(Constant(module.dim, <<1, 1>>),
                      Constant(module.dim, <<0, 1>>))}
    ELSE {[status |-> "ok", changed |-> FALSE, weight |-> None,
           bias |-> None]}

InitWeights ==
    /\ pos_embed = <<>>
    /\ net = NoModel
    /\ op = "init"
    /\ args = NoArgs
    /\ ret = NoRet

\* means, standard deviations and bounds [a, b] of the direct calls
Means == {DefaultMean, <<10, 1>>, <<-10, 1>>}

Stds == {InitStd, <<1, 1>>}

Cutoffs == {<<DefaultA, DefaultB>>, <<<<-1, 1>>, <<1, 1>>>>}

\* modules that are initialized
InitModules ==
    {Linear(i, o, bias) : i \in EmbedDims, o \in EmbedDims, bias \in BOOLEAN}
        \cup {LayerNorm(d) : d \in EmbedDims} \cup {GELU}

\* _truncated_normal called directly
TruncatedNormalCall ==
    /\ op = "init"
    /\ \E numel \in EmbedDims, mean \in Means, std \in Stds, ab \in Cutoffs :
        \E r \in truncated_normal(numel, mean, std, ab[1], ab[2]) :
            /\ op' = "_truncated_normal"
            /\ args' = [numel |-> numel, mean |-> mean, std |-> std,
                        a |-> ab[1], b |-> ab[2]]
            /\ ret' = r
            /\ UNCHANGED <<pos_embed, net>>

\* _init_dino_head(module)
InitDinoHead ==
    /\ op = "init"
    /\ \E module \in InitModules :
        \E r \in init_dino_head(module) :
            /\ op' = "_init_dino_head"
            /\ args' = [module |-> module]
            /\ ret' = r
            /\ UNCHANGED <<pos_embed, net>>

\* self._init_weights(module), as self.apply calls it on every module
ApplyInitWeights ==
    /\ op = "init"
    /\ \E module \in InitModules :
        \E r \in VisionTransformer_init_weights(module) :
            /\ op' = "VisionTransformer._init_weights"
            /\ args' = [module |-> module]
            /\ ret' = r
            /\ UNCHANGED <<pos_embed, net>>

NextWeights == TruncatedNormalCall \/ InitDinoHead \/ ApplyInitWeights

SpecWeights == InitWeights /\ [][NextWeights]_vars

---------------------------------------------------------------------------
(* Claims about the interpolation (under SpecInterp) *)

IsInterpCall ==
    op \in {"modules.interpolate_pos_encoding",
            "preprocessing.interpolate_pos_encoding"}

\* the call asked for the table's own patch count on a square image
AskedForSame == args.n_patch = PatchRows(pos_embed) /\ args.height = args.width

\* C2: a call with n_patch equal to the table's patch-row count and
\* height = width returns the table it was given, row for row, whatever
\* patch_size and dim are.
C2_FastPathIdentity ==
    [][(IsInterpCall' /\ args'.n_patch = PatchRows(pos_embed)
            /\ args'.height = args'.width)
        => (ret'.status = "ok" /\ ret'.table = pos_embed)]_vars

\* C2 happens: a fast-path call with a dim that is not the table's width
\* and patch_size 0 returned the table.
C2_Witness ==
    /\ IsInterpCall
    /\ AskedForSame
    /\ args.dim # Width(pos_embed)
    /\ args.patch_size = 0
    /\ PatchRows(pos_embed) > 1
    /\ ret.status = "ok"
    /\ ret.table = pos_embed

\* C4: whenever the interpolation returns a table, its row 1 is row 1 of the
\* table it was given (the class-token row, in front of the patch rows), and
\* no call changes the table it was given.
C4_ClassRowKept ==
    [][IsInterpCall'
        => /\ pos_embed' = pos_embed
           /\ ret'.status = "ok"
                => (Len(ret'.table) >= 1 /\ ret'.table[1] = pos_embed[1])]_vars

\* C4 happens: a general-path call returned resampled patch rows that differ
\* from the class-token row, behind that row.
C4_Witness ==
    /\ IsInterpCall
    /\ ~AskedForSame
    /\ ret.status = "ok"
    /\ Len(ret.table) > 2
    /\ ret.table # pos_embed
    /\ ret.table[1] = pos_embed[1]
    /\ \A i \in 2 .. Len(ret.table) : ret.table[i] # pos_embed[1]

\* C5 as stated: every call on a table whose patch-row count is not a
\* perfect square ends in an error.
C5_Original ==
    (IsInterpCall /\ ~IsPerfectSquare(PatchRows(pos_embed)))
        => ret.status = "error"

\* C5 amended: on a table whose patch-row count is not a perfect square, a
\* call that asks for another patch count or a non-square image ends in an
\* error; a call with n_patch equal to the patch-row count and height = width
\* returns the whole table unchanged.  No call returns a table built from
\* fewer patch rows.
C5_NonSquareGrid ==
    (IsInterpCall /\ ~IsPerfectSquare(PatchRows(pos_embed)))
        => IF AskedForSame
           THEN ret.status = "ok" /\ ret.table = pos_embed
           ELSE ret.status = "error" /\ ret.table = <<>>

\* C5 happens: the reshape to a square grid refused a non-square table.
C5_Witness ==
    /\ IsInterpCall
    /\ ~IsPerfectSquare(PatchRows(pos_embed))
    /\ ~AskedForSame
    /\ args.dim = Width(pos_embed)
    /\ args.patch_size > 0
    /\ ret.status = "error"
    /\ ret.error = "reshape"

\* the last call was on the table of img_size 224 and patch_size 16, with
\* patch_size 16, on a square image of s pixels a side
DefaultCall(s) ==
    /\ IsInterpCall
    /\ pos_embed = DefaultTable
    /\ args.patch_size = 16
    /\ args.dim = 1
    /\ args.height = s
    /\ args.width = s

\* C7 as stated: the table of img_size 224 and patch_size 16 has 196 patch
\* rows and 197 rows; the interpolation returns it unchanged for a 224 x 224
\* image and returns 785 rows (28 x 28 patch rows and the class row) for a
\* 392 x 392 image (asked for with a patch count other than the table's).
C7_Original ==
    /\ compute_num_patches(224, 16) = 196
    /\ Len(DefaultTable) = 197
    /\ (DefaultCall(224) /\ args.n_patch = 196)
        => (ret.status = "ok" /\ ret.table = pos_embed)
    /\ (DefaultCall(392) /\ args.n_patch # 196)
        => (ret.status = "ok" /\ Len(ret.table) = 785)

\* C7 amended: as stated for the table and the 224 x 224 image; for a
\* 392 x 392 image, asked for with a patch count other than the table's 196,
\* the interpolation returns 577 rows (392 // 16 = 24, a 24 x 24 patch grid
\* and the class row); it returns 785 rows for a 448 x 448 image.
C7_DefaultSizes ==
    /\ compute_num_patches(224, 16) = 196
    /\ Len(DefaultTable) = 197
    /\ (DefaultCall(224) /\ args.n_patch = 196)
        => (ret.status = "ok" /\ ret.table = pos_embed
                /\ Len(ret.table) = 197)
    /\ (DefaultCall(392) /\ args.n_patch # 196)
        => (ret.status = "ok" /\ Len(ret.table) = 577)
    /\ (DefaultCall(448) /\ args.n_patch # 196)
        => (ret.status = "ok" /\ Len(ret.table) = 785)

\* C7 happens: the 392 x 392 call on the 197-row table returned 577 rows.
C7_Witness ==
    /\ DefaultCall(392)
    /\ Len(pos_embed) = 197
    /\ args.n_patch = 784
    /\ ret.status = "ok"
    /\ Len(ret.table) = 577
    /\ ret.table[1] = pos_embed[1]

---------------------------------------------------------------------------
(* Claims about patch embedding and token assembly (under SpecTokens) *)

\* the image of the last call has the embedder's channels and holds at least
\* one patch in each direction
ImageFits ==
    /\ args.x.channels = args.patch_embed.in_channels
    /\ args.x.height >= args.patch_embed.patch_size
    /\ args.x.width >= args.patch_embed.patch_size

\* height or width of the image of the last call is no multiple of the
\* embedder's patch size
NotDivisible ==
    \/ args.x.height % args.patch_embed.patch_size # 0
    \/ args.x.width % args.patch_embed.patch_size # 0

\* patches of the image of the last call, partial ones left out
WholePatches ==
    (args.x.height \div args.patch_embed.patch_size)
        * (args.x.width \div args.patch_embed.patch_size)

\* prepare_tokens was called with the embedder's own patch size and a table
\* of the embedder's width whose patch rows form a non-empty square grid
ConsistentPrepare ==
    /\ op = "prepare_tokens"
    /\ args.patch_size = args.patch_embed.patch_size
    /\ Width(pos_embed) = args.patch_embed.embed_dim
    /\ PatchRows(pos_embed) >= 1
    /\ IsPerfectSquare(PatchRows(pos_embed))

\* C6 as stated: patch embedding and prepare_tokens fail for an image whose
\* height or width is no multiple of the patch size, and a token sequence
\* that is produced has (height/patch_size)*(width/patch_size) patch tokens.
C6_Original ==
    /\ op = "PatchEmbed.forward"
        => IF NotDivisible THEN ret.status = "error"
           ELSE ret.status = "ok" => ret.tokens = WholePatches
    /\ ConsistentPrepare
        => IF NotDivisible THEN ret.status = "error"
           ELSE ret.status = "ok" => ret.tokens = 1 + WholePatches

\* C6 amended: patch embedding returns a token sequence exactly for the
\* images of the embedder's channel count whose height and width are at
\* least the patch size, multiples of it or not, with
\* (height // patch_size)*(width // patch_size) patch tokens; prepare_tokens,
\* given the embedder's patch size and a table of its width with a non-empty
\* square grid, returns 1 + that many tokens for the same images and fails
\* for the others.
C6_PatchCount ==
    /\ op = "PatchEmbed.forward"
        => IF ImageFits
           THEN ret.status = "ok" /\ ret.tokens = WholePatches
                /\ ret.batch = args.x.batch
           ELSE ret.status = "error"
    /\ ConsistentPrepare
        => IF ImageFits
           THEN ret.status = "ok" /\ ret.tokens = 1 + WholePatches
                /\ ret.pos_rows = ret.tokens
           ELSE ret.status = "error"

\* C6 happens: prepare_tokens resampled the table for an image whose height
\* is no multiple of the patch size and returned a token sequence.
C6_Witness ==
    /\ ConsistentPrepare
    /\ args.x.height % args.patch_embed.patch_size # 0
    /\ args.x.height # args.x.width
    /\ ret.path = "general"
    /\ ret.status = "ok"
    /\ ret.tokens = 1 + WholePatches
    /\ ret.tokens > 2

---------------------------------------------------------------------------
(* Claims about the Vision Transformer (under SpecVit) *)

\* the last call was forward on a model with a non-empty training grid and
\* heads that divide its width, on an image of the model's channel count
\* whose height and width are multiples of the patch size
ForwardOnFittingImage ==
    /\ op = "VisionTransformer.forward"
    /\ net.patch_embed.num_patches >= 1
    /\ AttentionFits(net)
    /\ args.x.channels = net.patch_embed.in_channels
    /\ args.x.height >= net.patch_embed.patch_size
    /\ args.x.width >= net.patch_embed.patch_size
    /\ args.x.height % net.patch_embed.patch_size = 0
    /\ args.x.width % net.patch_embed.patch_size = 0

\* C1: forward on such an image succeeds with one feature vector per image;
\* the positional table added has 1 + (H/p)*(W/p) rows for the model's patch
\* size p, as many as the token sequence, whatever the batch size.
C1_Original ==
    ForwardOnFittingImage
        => /\ ret.status = "ok"
           /\ ret.features = args.x.batch
           /\ ret.pos_rows =
                1 + (args.x.height \div net.patch_embed.patch_size)
                        * (args.x.width \div net.patch_embed.patch_size)
           /\ ret.pos_rows = ret.tokens

\* C3: when, inside prepare_tokens, the interpolation takes the general path
\* on a table with a perfect-square grid and returns, the table has
\* 1 + (height // patch_size)*(width // patch_size) rows, as many as the
\* token sequence it is added to has tokens (1 + n_patch).
C3_Original ==
    (op = "VisionTransformer.forward" /\ ret.path = "general"
        /\ IsPerfectSquare(PatchRows(pos_embed)) /\ ret.pos_rows > 0)
        => /\ ret.pos_rows =
                1 + (args.x.height \div ret.patch_size)
                        * (args.x.width \div ret.patch_size)
           /\ ret.pos_rows = ret.tokens

IsFactoryCall ==
    op \in {"modules.vit_tiny", "modules.vit_small", "modules.vit_base",
            "src.vit_tiny", "src.vit_small", "src.vit_base"}

\* C10: every factory, in both copies of the modules file, returns a model
\* (not None) with its variant's embed_dim and num_heads (192/3, 384/6,
\* 768/12), depth 12, mlp_ratio 4, qkv_bias true and the caller's patch_size.
C10_Original ==
    IsFactoryCall
        => /\ ret.status = "ok"
           /\ ret.value # None
           /\ ret.value.kind = "VisionTransformer"
           /\ args.variant = "tiny"
                => (ret.value.embed_dim = 192 /\ ret.value.num_heads = 3)
           /\ args.variant = "small"
                => (ret.value.embed_dim = 384 /\ ret.value.num_heads = 6)
           /\ args.variant = "base"
                => (ret.value.embed_dim = 768 /\ ret.value.num_heads = 12)
           /\ ret.value.depth = 12
           /\ ret.value.mlp_ratio = 4
           /\ ret.value.qkv_bias = TRUE
           /\ ret.value.patch_embed.patch_size = args.patch_size

---------------------------------------------------------------------------
(* Claims about stochastic depth (under SpecDrop) *)

IsDropCall == op \in {"drop_path", "DropPath.forward"}

\* C8: drop_path and DropPath.forward return their input unchanged, without
\* an error, when the drop probability is 0, and in evaluation mode for
\* every drop probability, the default None and 1 included.
C8_Original ==
    (IsDropCall /\ (args.drop_prob = Float(0, 1) \/ ~args.training))
        => (ret.status = "ok" /\ ret.value = args.x)

---------------------------------------------------------------------------
(* Claims about the DINO head (under SpecHead) *)

\* the Linear layers among the modules of a sequence
LinearsOf(items) == SelectSeq(items, LAMBDA l : l.kind = "Linear")

\* the linear layers the head is to have: input_dim -> bottleneck_dim for
\* one layer, else input_dim -> hidden_dim, hidden_dim -> hidden_dim
\* (n_layers - 2 times) and hidden_dim -> bottleneck_dim
ExpectedLinears(a) ==
    [i \in 1 .. a.n_layers |->
        Linear(IF i = 1 THEN a.input_dim ELSE a.hidden_dim,
               IF i = a.n_layers THEN a.bottleneck_dim ELSE a.hidden_dim,
               TRUE)]

\* C9: for n_layers >= 1 dino_head returns, without an error, n_layers
\* linear layers of the stated shapes, then an L2 normalization along the
\* last axis, then a weight-normalized linear layer without bias from
\* bottleneck_dim to output_dim whose scale is 1 and frozen.
C9_Original ==
    (op \in {"modules.dino_head", "src.dino_head"} /\ args.n_layers >= 1)
        => /\ ret.status = "ok"
           /\ Len(ret.value.items) = 3
           /\ LinearsOf(ret.value.items[1].items) = ExpectedLinears(args)
           /\ ret.value.items[2] = Normalize(2, -1)
           /\ ret.value.items[3].kind = "Linear"
           /\ ret.value.items[3].in_features = args.bottleneck_dim
           /\ ret.value.items[3].out_features = args.output_dim
           /\ ret.value.items[3].bias = FALSE
           /\ ret.value.items[3].weight_norm = TRUE
           /\ ret.value.items[3].weight_g = 1
           /\ ret.value.items[3].weight_g_requires_grad = FALSE

---------------------------------------------------------------------------
(* Claims about the attention (under SpecAttn) *)

\* the last call returned an attention map
ReturnedAttention ==
    /\ op \in {"Attention.forward", "Block.forward"}
    /\ args.return_attention
    /\ ret.status = "ok"

\* C11: the attention map returned by Attention.forward, and by
\* Block.forward with return_attention, has rows that sum to 1 over the key
\* axis for every batch element, head and query position, in evaluation and
\* in training mode and for every attention dropout probability.
C11_Original ==
    ReturnedAttention
        => \A s \in DOMAIN ret.attn :
            \A i \in DOMAIN ret.attn[s] : RatSum(ret.attn[s][i]) = <<1, 1>>

\* the scale of the attention the last constructor call built
BuiltScale ==
    IF ret.value.kind = "Attention" THEN ret.value.scale
    ELSE ret.value.attn.scale

\* C12: the scale of the attention is the override qk_scale for every
\* override a caller gives, 0 included, and is head_dim ** -0.5 with
\* head_dim = dim // num_heads exactly when qk_scale is None.
C12_Original ==
    (op \in {"Attention.__init__", "Block.__init__"} /\ ret.status = "ok")
        => /\ (args.qk_scale # None) => (BuiltScale = args.qk_scale)
           /\ (args.qk_scale = None)
                <=> (BuiltScale = InvSqrt(args.dim \div args.num_heads))

---------------------------------------------------------------------------
(* Claims about the weight initialization (under SpecWeights) *)

\* every entry of the tensor t lies in [lo, hi]
AllWithin(t, lo, hi) ==
    \A i \in DOMAIN t : RatLeq(lo, t[i]) /\ RatLeq(t[i], hi)

\* the last call initialized a linear layer
InitializedLinear ==
    /\ op \in {"_init_dino_head", "VisionTransformer._init_weights"}
    /\ args.module.kind = "Linear"

\* C13: after _init_dino_head or _init_weights every weight of a linear
\* layer lies within two standard deviations of the mean, in [-0.04, 0.04],
\* and every bias is zero; and _truncated_normal called with a mean more
\* than two standard deviations outside [a, b] warns, does not fail, and
\* fills the tensor with values in [a, b].
C13_Original ==
    /\ InitializedLinear
        => /\ ret.status = "ok"
           /\ AllWithin(ret.weight.values, <<-1, 25>>, <<1, 25>>)
           /\ args.module.bias
                => AllWithin(ret.bias.values, <<0, 1>>, <<0, 1>>)
    /\ (op = "_truncated_normal"
            /\ TruncatedNormalWarns(args.mean, args.std, args.a, args.b))
        => /\ ret.status = "ok"
           /\ ret.warned
           /\ AllWithin(ret.tensor, args.a, args.b)

===========================================================================
